---- MODULE Spec2Model ----
(***************************************************************************)
(* A model of get_trending_tweets.py: module initialization (credential    *)
(* loading and API client construction), get_trending_tweets and the       *)
(* __main__ block, as one sequential process.  The file system, tweepy and *)
(* the Twitter API are the environment: the credentials file is fixed in   *)
(* the initial state, and each API call draws its outcome from a small set.*)
(* Strings the program inspects or builds (trend names, tweet texts,       *)
(* output lines) are sequences of one-character strings.  The script is    *)
(* taken as run by an interpreter that accepts it (the backslash inside    *)
(* the f-string expression of line 106 needs Python 3.12 or later).        *)
(***************************************************************************)
EXTENDS Integers, Sequences, FiniteSets, TLC

VARIABLES
    pc,               \* position of the process in the script
    credFile,         \* twitter_credentials.json as found on disk
    api_credentials,  \* module global set at line 44
    api,              \* module global set at line 53
    exc,              \* class of the exception in flight, "none" if none
    trends_data,      \* local of get_trending_tweets, line 74
    i,                \* position of the for loop of line 81
    tweets,           \* local of get_trending_tweets, line 97
    j,                \* position of the for loop of line 103
    stdout,           \* lines printed so far
    log,              \* records given to the logger so far
    trace,            \* calls made to tweepy's API and to time.sleep so far
    exitStatus        \* process exit status, -1 while running

vars == <<pc, credFile, api_credentials, api, exc, trends_data, i, tweets, j,
          stdout, log, trace, exitStatus>>

----------------------------------------------------------------------------
(* Bounds of the model *)

MaxTrends == 3
MaxTextLen == 2

(* Program constants *)

Woeid == 1
TweetCountPerTrend == 5
SleepSeconds == 1

----------------------------------------------------------------------------
(* Python values *)

NoText == <<>>
None == [type |-> "null", n |-> 0]
IntVal(n) == [type |-> "int", n |-> n]
StrVal == [type |-> "str", n |-> 0]

RECURSIVE SeqsUpTo(_, _)
SeqsUpTo(S, n) ==
    IF n = 0 THEN {<<>>}
    ELSE LET shorter == SeqsUpTo(S, n - 1)
         IN  shorter \cup {Append(s, x) : s \in {t \in shorter : Len(t) = n - 1}, x \in S}

(* Exception classes and the base classes each has, as isinstance sees them *)
Bases(cls) ==
    CASE cls = "FileNotFoundError" -> {"FileNotFoundError", "OSError", "Exception"}
      [] cls = "JSONDecodeError"   -> {"JSONDecodeError", "ValueError", "Exception"}
      [] cls = "ValueError"        -> {"ValueError", "Exception"}
      [] cls = "TypeError"         -> {"TypeError", "Exception"}
      [] cls = "KeyError"          -> {"KeyError", "LookupError", "Exception"}
      [] cls = "AttributeError"    -> {"AttributeError", "Exception"}
      [] cls = "ConnectionError"   -> {"ConnectionError", "OSError", "Exception"}
      [] cls = "Unauthorized"      -> {"Unauthorized", "HTTPException", "TweepyException", "Exception"}
      [] cls = "TweepyException"   -> {"TweepyException", "Exception"}
      [] OTHER                     -> {cls}

Catches(classes, e) == Bases(e) \cap classes # {}

LogRecord(level, line, about) == [level |-> level, line |-> line, about |-> about]

----------------------------------------------------------------------------
(* The credentials file *)

required_keys == {"consumer_key", "consumer_secret", "access_token", "access_token_secret"}

(* A JSON document: its type, the required key names k for which Python's   *)
(* `k in document` is true (keys of an object, elements of an array,        *)
(* substrings of a string), and, for an object, the values under them.      *)
JsonObjects ==
    UNION {{[type |-> "object", has |-> S, val |-> [k \in S |-> IF k \in E THEN "" ELSE "s3cr3t"]]
              : E \in {{}} \cup {{k} : k \in S}} : S \in SUBSET required_keys}
JsonArrays == {[type |-> "array", has |-> S, val |-> <<>>] : S \in SUBSET required_keys}
JsonStrings ==
    {[type |-> "string", has |-> S, val |-> <<>>] :
        S \in {T \in SUBSET required_keys : "access_token_secret" \in T => "access_token" \in T}}
JsonScalars == {[type |-> t, has |-> {}, val |-> <<>>] : t \in {"null", "number", "bool"}}
JsonDocuments == JsonObjects \cup JsonArrays \cup JsonStrings \cup JsonScalars

NoDocument == [type |-> "null", has |-> {}, val |-> <<>>]

CredFiles ==
    {[exists |-> FALSE, json |-> FALSE, doc |-> NoDocument],
     [exists |-> TRUE, json |-> FALSE, doc |-> NoDocument]}
    \cup {[exists |-> TRUE, json |-> TRUE, doc |-> d] : d \in JsonDocuments}

(* `key in credentials` is defined for containers only *)
SupportsIn(doc) == doc.type \in {"object", "array", "string"}

(* A variant examined below: line 28 with any() for all() *)
HasAnyKey(doc) == \E key \in required_keys : key \in doc.has

HasAllKeys(doc) == \A key \in required_keys : key \in doc.has

(* trends_data before line 74 runs, and the None trends_place may return *)
NoTrendsData == [isNone |-> TRUE, places |-> <<>>]

NoApi == [built |-> FALSE, consumer_key |-> "", consumer_secret |-> "",
          access_token |-> "", access_token_secret |-> ""]

----------------------------------------------------------------------------
(* Module initialization *)

Init ==
    /\ pc = "load"
    /\ credFile \in CredFiles
    /\ api_credentials = NoDocument
    /\ api = NoApi
    /\ exc = "none"
    /\ trends_data = NoTrendsData
    /\ i = 0
    /\ tweets = <<>>
    /\ j = 0
    /\ stdout = <<>>
    /\ log = <<>>
    /\ trace = <<>>
    /\ exitStatus = -1

(* load_twitter_credentials(), called at line 44 *)
load_twitter_credentials ==
    /\ pc = "load"
    /\ \/ /\ ~credFile.exists
          /\ log' = Append(log, LogRecord("ERROR", 20, NoText))
          /\ exc' = "FileNotFoundError"
          /\ pc' = "init_except"
          /\ UNCHANGED api_credentials
       \/ /\ credFile.exists /\ ~credFile.json
          /\ exc' = "JSONDecodeError"
          /\ pc' = "init_except"
          /\ UNCHANGED <<api_credentials, log>>
       \/ /\ credFile.exists /\ credFile.json /\ ~SupportsIn(credFile.doc)
          /\ exc' = "TypeError"
          /\ pc' = "init_except"
          /\ UNCHANGED <<api_credentials, log>>
       \/ /\ credFile.exists /\ credFile.json /\ SupportsIn(credFile.doc)
          /\ ~HasAllKeys(credFile.doc)
          /\ log' = Append(log, LogRecord("ERROR", 29, NoText))
          /\ exc' = "ValueError"
          /\ pc' = "init_except"
          /\ UNCHANGED api_credentials
       \/ /\ credFile.exists /\ credFile.json /\ SupportsIn(credFile.doc)
          /\ HasAllKeys(credFile.doc)
          /\ api_credentials' = credFile.doc
          /\ pc' = "read"
          /\ UNCHANGED <<exc, log>>
    /\ UNCHANGED <<credFile, api, trends_data, i, tweets, j, stdout, trace, exitStatus>>

(* lines 45-48: api_credentials["consumer_key"] ... *)
ReadCredentials ==
    /\ pc = "read"
    /\ \/ /\ api_credentials.type = "object"
          /\ pc' = "auth"
          /\ UNCHANGED exc
       \/ /\ api_credentials.type # "object"
          /\ exc' = "TypeError"
          /\ pc' = "init_except"
    /\ UNCHANGED <<credFile, api_credentials, api, trends_data, i, tweets, j,
                   stdout, log, trace, exitStatus>>

(* lines 51-54: tweepy.OAuthHandler, set_access_token, tweepy.API *)
CreateApi ==
    /\ pc = "auth"
    /\ \/ /\ api' = [built |-> TRUE,
                     consumer_key |-> api_credentials.val["consumer_key"],
                     consumer_secret |-> api_credentials.val["consumer_secret"],
                     access_token |-> api_credentials.val["access_token"],
                     access_token_secret |-> api_credentials.val["access_token_secret"]]
          /\ log' = Append(log, LogRecord("INFO", 54, NoText))
          /\ pc' = "main"
          /\ UNCHANGED exc
       \/ /\ exc' = "TweepyException"
          /\ pc' = "init_except"
          /\ UNCHANGED <<api, log>>
    /\ UNCHANGED <<credFile, api_credentials, trends_data, i, tweets, j, stdout,
                   trace, exitStatus>>

(* line 56 *)
InitHandled(e) == Catches({"FileNotFoundError", "ValueError", "TweepyException"}, e)

(* lines 56-58, and the interpreter's exit (a traceback, status 1) on an   *)
(* exception the clause does not name                                       *)
InitExcept ==
    /\ pc = "init_except"
    /\ IF InitHandled(exc)
       THEN /\ log' = Append(log, LogRecord("CRITICAL", 57, NoText))
            /\ exc' = "none"
       ELSE UNCHANGED <<log, exc>>
    /\ exitStatus' = 1
    /\ pc' = "exited"
    /\ UNCHANGED <<credFile, api_credentials, api, trends_data, i, tweets, j,
                   stdout, trace>>

----------------------------------------------------------------------------
(* What the API returns *)

Letters == <<"A", "B", "C", "D", "E", "F">>

(* Trends of one response have distinct names: the k-th is named Letters[k] *)
NameAt(k) == <<Letters[k]>>

Volumes == {[type |-> "absent", n |-> 0], None, IntVal(-1), IntVal(0), IntVal(1), StrVal}

(* The entries the API may return at position k: a name with any volume,    *)
(* or an entry without a "name" field                                       *)
TrendsAt(k) ==
    {[hasName |-> TRUE, name |-> NameAt(k), volume |-> v] : v \in Volumes}
    \cup {[hasName |-> FALSE, name |-> NoText, volume |-> IntVal(1)]}

RECURSIVE TrendLists(_)
TrendLists(n) ==
    IF n = 0 THEN {<<>>}
    ELSE LET shorter == TrendLists(n - 1)
         IN  shorter \cup {Append(s, t) : s \in {u \in shorter : Len(u) = n - 1}, t \in TrendsAt(n)}

(* Return values of api.trends_place: None, [], [{}], [{"trends": [...]}] *)
TrendsResponses ==
    {NoTrendsData, [isNone |-> FALSE, places |-> <<>>],
     [isNone |-> FALSE, places |-> <<[hasTrends |-> FALSE, trends |-> <<>>]>>]}
    \cup {[isNone |-> FALSE, places |-> <<[hasTrends |-> TRUE, trends |-> ts]>>]
             : ts \in TrendLists(MaxTrends)}

TrendsErrors == {"TweepyException", "Unauthorized", "AttributeError"}

(* Two statuses the search may return: one in extended mode, whose full     *)
(* text holds a newline, and one that carries only `text`                   *)
SamplePosts ==
    {[id |-> 1, hasFullText |-> TRUE, full_text |-> <<"a", "\n", "b">>, text |-> <<"a">>],
     [id |-> 2, hasFullText |-> FALSE, full_text |-> NoText, text |-> <<"c", "\n">>]}

(* Return values of api.search_tweets: at most `count` distinct statuses *)
SearchResults(count) ==
    {r \in SeqsUpTo(SamplePosts, Cardinality(SamplePosts)) :
        /\ Len(r) <= count
        /\ \A a, b \in 1..Len(r) : a # b => r[a].id # r[b].id}

SearchErrors == {"TweepyException", "Unauthorized", "ConnectionError"}

Call(op, q, count, raised, result) ==
    [op |-> op, q |-> q, count |-> count, raised |-> raised, result |-> result]

----------------------------------------------------------------------------
(* get_trending_tweets(woeid, tweet_count_per_trend) *)

(* A variant examined below: line 75 without its second test *)
NoTrendingDataListOnly(data) == data.isNone \/ Len(data.places) = 0

(* line 75: not trends_data or not trends_data[0].get("trends") *)
NoTrendingData(data) ==
    IF data.isNone \/ Len(data.places) = 0 THEN TRUE
    ELSE ~data.places[1].hasTrends \/ Len(data.places[1].trends) = 0

Trends == trends_data.places[1].trends

(* line 86: trend.get("tweet_volume") *)
TweetVolume(trend) == IF trend.volume.type = "absent" THEN None ELSE trend.volume

(* A variant examined below: line 88 as if every volume could be compared with 0 *)
ComparableAlways(tweet_volume) == TRUE

(* line 88, where it can be evaluated: None, or a number *)
Comparable(tweet_volume) == tweet_volume.type \in {"null", "int"}

(* A variant examined below: line 88 with < for <=: a volume of 0 is searched *)
SkipsTrendNegativeOnly(tweet_volume) == tweet_volume.type = "null" \/ tweet_volume.n < 0

SkipsTrend(tweet_volume) == tweet_volume.type = "null" \/ tweet_volume.n <= 0

(* lines 122-124 *)
Main ==
    /\ pc = "main"
    /\ log' = Append(log, LogRecord("INFO", 123, NoText))
    /\ pc' = "trends"
    /\ UNCHANGED <<credFile, api_credentials, api, exc, trends_data, i, tweets, j,
                   stdout, trace, exitStatus>>

(* lines 74-79 *)
TrendsPlace ==
    /\ pc = "trends"
    /\ \/ \E e \in TrendsErrors :
            /\ trace' = Append(trace, Call("trends_place", NoText, Woeid, e, <<>>))
            /\ exc' = e
            /\ pc' = "gtt_except"
            /\ UNCHANGED <<trends_data, i, log>>
       \/ \E data \in TrendsResponses :
            /\ trace' = Append(trace, Call("trends_place", NoText, Woeid, "none", <<>>))
            /\ trends_data' = data
            /\ \/ /\ NoTrendingData(data)
                  /\ log' = Append(log, LogRecord("WARNING", 76, NoText))
                  /\ pc' = "return"
                  /\ UNCHANGED i
               \/ /\ ~NoTrendingData(data)
                  /\ log' = Append(log, LogRecord("INFO", 79, NoText))
                  /\ i' = 1
                  /\ pc' = "loop"
            /\ UNCHANGED exc
    /\ UNCHANGED <<credFile, api_credentials, api, tweets, j, stdout, exitStatus>>

(* lines 81-92: the next trend of the for loop, up to the search *)
LoopTrend ==
    /\ pc = "loop"
    /\ \/ /\ i > Len(Trends)
          /\ pc' = "return"
          /\ UNCHANGED <<i, exc, log>>
       \/ /\ i <= Len(Trends)
          /\ ~Trends[i].hasName
          /\ exc' = "KeyError"
          /\ pc' = "gtt_except"
          /\ UNCHANGED <<i, log>>
       \/ /\ i <= Len(Trends)
          /\ Trends[i].hasName
          /\ ~Comparable(TweetVolume(Trends[i]))
          /\ exc' = "TypeError"
          /\ pc' = "gtt_except"
          /\ UNCHANGED <<i, log>>
       \/ /\ i <= Len(Trends)
          /\ Trends[i].hasName
          /\ Comparable(TweetVolume(Trends[i]))
          /\ SkipsTrend(TweetVolume(Trends[i]))
          /\ log' = Append(log, LogRecord("INFO", 89, Trends[i].name))
          /\ i' = i + 1
          /\ UNCHANGED <<pc, exc>>
       \/ /\ i <= Len(Trends)
          /\ Trends[i].hasName
          /\ Comparable(TweetVolume(Trends[i]))
          /\ ~SkipsTrend(TweetVolume(Trends[i]))
          /\ log' = Append(log, LogRecord("INFO", 92, Trends[i].name))
          /\ pc' = "search"
          /\ UNCHANGED <<i, exc>>
    /\ UNCHANGED <<credFile, api_credentials, api, trends_data, tweets, j, stdout,
                   trace, exitStatus>>

(* A variant examined below: lines 108-111 without the clause of line 110 *)
SearchHandlerTweepyOnly(e) == IF Catches({"TweepyException"}, e) THEN 109 ELSE 0

(* lines 108-111: the line of the clause that handles e, the first that   *)
(* matches; 0 if none does and e leaves the try statement                   *)
SearchHandler(e) ==
    IF Catches({"TweepyException"}, e) THEN 109
    ELSE IF Catches({"Exception"}, e) THEN 111
    ELSE 0

(* line 101: where `continue` resumes, the head of the for loop of line 81, *)
(* and not the time.sleep of line 114                                       *)
AfterNoTweets == "loop"

(* lines 94-101 and 108-111: the search and what follows it at once *)
SearchTweets ==
    /\ pc = "search"
    /\ \/ \E e \in SearchErrors :
            /\ trace' = Append(trace, Call("search_tweets", Trends[i].name, TweetCountPerTrend, e, <<>>))
            /\ IF SearchHandler(e) # 0
               THEN /\ log' = Append(log, LogRecord("ERROR", SearchHandler(e), Trends[i].name))
                    /\ pc' = "sleep"
                    /\ UNCHANGED exc
               ELSE /\ exc' = e
                    /\ pc' = "gtt_except"
                    /\ UNCHANGED log
            /\ UNCHANGED <<i, tweets, j>>
       \/ \E result \in SearchResults(TweetCountPerTrend) :
            /\ trace' = Append(trace, Call("search_tweets", Trends[i].name, TweetCountPerTrend, "none", result))
            /\ tweets' = result
            /\ \/ /\ Len(result) = 0
                  /\ log' = Append(log, LogRecord("INFO", 100, Trends[i].name))
                  /\ pc' = AfterNoTweets
                  /\ i' = IF AfterNoTweets = "loop" THEN i + 1 ELSE i
                  /\ UNCHANGED j
               \/ /\ Len(result) > 0
                  /\ j' = 1
                  /\ pc' = "tweets"
                  /\ UNCHANGED <<i, log>>
            /\ UNCHANGED exc
    /\ UNCHANGED <<credFile, api_credentials, api, trends_data, stdout, exitStatus>>

(* line 105 *)
TweetText(tweet) == IF tweet.hasFullText THEN tweet.full_text ELSE tweet.text

(* A variant examined below: line 106 without the replace *)
ReplaceNewlinesNot(text) == text

(* str.replace('\n', ' ') *)
RECURSIVE ReplaceNewlines(_)
ReplaceNewlines(text) ==
    IF text = <<>> THEN <<>>
    ELSE <<IF Head(text) = "\n" THEN " " ELSE Head(text)>> \o ReplaceNewlines(Tail(text))

TweetPrefix == <<" ", " ", "T", "w", "e", "e", "t", ":", " ">>

(* A variant examined below: line 106 printing the trend name before the text *)
TweetLineWithName(trend_name, tweet) == trend_name \o <<":", " ">> \o ReplaceNewlines(TweetText(tweet))

(* line 106: the line print() writes, without its terminating newline *)
TweetLine(trend_name, tweet) == TweetPrefix \o ReplaceNewlines(TweetText(tweet))

(* lines 103-106 *)
PrintTweet ==
    /\ pc = "tweets"
    /\ \/ /\ j <= Len(tweets)
          /\ stdout' = Append(stdout, TweetLine(Trends[i].name, tweets[j]))
          /\ j' = j + 1
          /\ UNCHANGED pc
       \/ /\ j > Len(tweets)
          /\ pc' = "sleep"
          /\ UNCHANGED <<stdout, j>>
    /\ UNCHANGED <<credFile, api_credentials, api, exc, trends_data, i, tweets, log,
                   trace, exitStatus>>

(* line 114, then the for loop of line 81 advances *)
Sleep ==
    /\ pc = "sleep"
    /\ trace' = Append(trace, Call("sleep", NoText, SleepSeconds, "none", <<>>))
    /\ i' = i + 1
    /\ pc' = "loop"
    /\ UNCHANGED <<credFile, api_credentials, api, exc, trends_data, tweets, j, stdout,
                   log, exitStatus>>

(* A variant examined below: lines 116-119 without the clause of line 118 *)
GttHandlerTweepyOnly(e) == IF Catches({"TweepyException"}, e) THEN 117 ELSE 0

(* lines 116-119: the line of the clause that handles e, 0 if none does *)
GttHandler(e) ==
    IF Catches({"TweepyException"}, e) THEN 117
    ELSE IF Catches({"Exception"}, e) THEN 119
    ELSE 0

(* lines 116-119; an exception no clause handles ends the process *)
GttExcept ==
    /\ pc = "gtt_except"
    /\ IF GttHandler(exc) # 0
       THEN /\ log' = Append(log, LogRecord("CRITICAL", GttHandler(exc), NoText))
            /\ exc' = "none"
            /\ pc' = "return"
            /\ UNCHANGED exitStatus
       ELSE /\ exitStatus' = 1
            /\ pc' = "exited"
            /\ UNCHANGED <<log, exc>>
    /\ UNCHANGED <<credFile, api_credentials, api, trends_data, i, tweets, j, stdout,
                   trace>>

(* line 125 and the normal end of the script *)
MainDone ==
    /\ pc = "return"
    /\ log' = Append(log, LogRecord("INFO", 125, NoText))
    /\ exitStatus' = 0
    /\ pc' = "exited"
    /\ UNCHANGED <<credFile, api_credentials, api, exc, trends_data, i, tweets, j,
                   stdout, trace>>

Next ==
    \/ load_twitter_credentials
    \/ ReadCredentials
    \/ CreateApi
    \/ InitExcept
    \/ Main
    \/ TrendsPlace
    \/ LoopTrend
    \/ SearchTweets
    \/ PrintTweet
    \/ Sleep
    \/ GttExcept
    \/ MainDone

Spec == Init /\ [][Next]_vars

----------------------------------------------------------------------------
(* The printing of one search result, for texts of every shape up to        *)
(* MaxTextLen: the process just after api.search_tweets returned one status *)
(* for the only trend of the response.                                      *)

Alphabet == {"a", "b", " ", "\n"}

Texts == SeqsUpTo(Alphabet, MaxTextLen)

TextPosts ==
    {[id |-> 1, hasFullText |-> TRUE, full_text |-> t, text |-> NoText] : t \in Texts}
    \cup {[id |-> 1, hasFullText |-> FALSE, full_text |-> NoText, text |-> t] : t \in Texts}

FullCredentials ==
    [type |-> "object", has |-> required_keys, val |-> [k \in required_keys |-> "s3cr3t"]]

InitText ==
    \E post \in TextPosts :
        /\ pc = "tweets"
        /\ credFile = [exists |-> TRUE, json |-> TRUE, doc |-> FullCredentials]
        /\ api_credentials = FullCredentials
        /\ api = [built |-> TRUE, consumer_key |-> "s3cr3t", consumer_secret |-> "s3cr3t",
                  access_token |-> "s3cr3t", access_token_secret |-> "s3cr3t"]
        /\ exc = "none"
        /\ trends_data = [isNone |-> FALSE, places |->
               <<[hasTrends |-> TRUE, trends |->
                    <<[hasName |-> TRUE, name |-> NameAt(1), volume |-> IntVal(1)]>>]>>]
        /\ i = 1
        /\ tweets = <<post>>
        /\ j = 1
        /\ stdout = <<>>
        /\ log = <<LogRecord("INFO", 54, NoText), LogRecord("INFO", 123, NoText),
                   LogRecord("INFO", 79, NoText), LogRecord("INFO", 92, NameAt(1))>>
        /\ trace = <<Call("trends_place", NoText, Woeid, "none", <<>>),
                     Call("search_tweets", NameAt(1), TweetCountPerTrend, "none", <<post>>)>>
        /\ exitStatus = -1

NextText ==
    \/ PrintTweet
    \/ Sleep
    \/ LoopTrend
    \/ MainDone

SpecText == InitText /\ [][NextText]_vars

----------------------------------------------------------------------------
(* What the properties below speak of *)

IsPrefix(s, t) == Len(s) <= Len(t) /\ \A k \in 1..Len(s) : s[k] = t[k]

SearchCalls == SelectSeq(trace, LAMBDA c : c.op = "search_tweets")
Queries == [k \in 1..Len(SearchCalls) |-> SearchCalls[k].q]

ListingReturned == Len(trace) >= 1 /\ trace[1].op = "trends_place" /\ trace[1].raised = "none"
ListingRaised == Len(trace) >= 1 /\ trace[1].op = "trends_place" /\ trace[1].raised # "none"

(* The response is empty or absent: None, [], [{}] or [{"trends": []}] *)
EmptyOrAbsent(data) ==
    IF data.isNone THEN TRUE
    ELSE IF data.places = <<>> THEN TRUE
    ELSE IF ~data.places[1].hasTrends THEN TRUE
    ELSE data.places[1].trends = <<>>

Listed == IF ListingReturned /\ ~EmptyOrAbsent(trends_data) THEN trends_data.places[1].trends ELSE <<>>

(* A trend as the data model has it: a name, and a volume that is a number or null *)
WellFormed(trend) == trend.hasName /\ trend.volume.type \in {"absent", "null", "int"}
VolumePositive(trend) == trend.hasName /\ trend.volume.type = "int" /\ trend.volume.n > 0

FirstMalformed(ts) ==
    IF \A k \in 1..Len(ts) : WellFormed(ts[k]) THEN Len(ts) + 1
    ELSE CHOOSE m \in 1..Len(ts) : ~WellFormed(ts[m]) /\ \A k \in 1..(m - 1) : WellFormed(ts[k])

RECURSIVE PositiveNames(_)
PositiveNames(ts) ==
    IF ts = <<>> THEN <<>>
    ELSE (IF VolumePositive(Head(ts)) THEN <<Head(ts).name>> ELSE <<>>) \o PositiveNames(Tail(ts))

Logged(level, line, about) == \E k \in 1..Len(log) : log[k] = LogRecord(level, line, about)
LoggedAt(level) == \E k \in 1..Len(log) : log[k].level = level

FullText(post) == IF post.hasFullText THEN post.full_text ELSE post.text
OneLine(text) == [k \in 1..Len(text) |-> IF text[k] = "\n" THEN " " ELSE text[k]]

(* The lines of the posts every successful search returned, in call order  *)
(* and then in returned order, each as "  Tweet: <text on one line>"        *)
RECURSIVE TweetLines(_)
TweetLines(calls) ==
    IF calls = <<>> THEN <<>>
    ELSE [k \in 1..Len(Head(calls).result) |->
             <<" ", " ", "T", "w", "e", "e", "t", ":", " ">> \o OneLine(FullText(Head(calls).result[k]))]
         \o TweetLines(Tail(calls))

(* The same lines, each as "<trend name>: <text on one line>" *)
RECURSIVE NamedLines(_)
NamedLines(calls) ==
    IF calls = <<>> THEN <<>>
    ELSE [k \in 1..Len(Head(calls).result) |->
             Head(calls).q \o <<":", " ">> \o OneLine(FullText(Head(calls).result[k]))]
         \o NamedLines(Tail(calls))

Exited0 == pc = "exited" /\ exitStatus = 0

----------------------------------------------------------------------------
(* C1: in a run whose listed trends all have a name and a volume that is a  *)
(* number or null, the queries given to api.search_tweets are, at every     *)
(* moment, a prefix of the names of the trends with a volume > 0 in listed  *)
(* order, and at exit exactly those names: trends with a null, zero or      *)
(* negative volume are never searched, whatever earlier searches did.       *)
C1_SearchesArePositiveTrendsInOrder ==
    (ListingReturned /\ \A k \in 1..Len(Listed) : WellFormed(Listed[k]))
        => /\ IsPrefix(Queries, PositiveNames(Listed))
           /\ pc = "exited" => (exitStatus = 0 /\ Queries = PositiveNames(Listed))

C1_Witness ==
    /\ Exited0
    /\ Len(Listed) = 3
    /\ VolumePositive(Listed[1]) /\ WellFormed(Listed[2]) /\ ~VolumePositive(Listed[2])
    /\ VolumePositive(Listed[3])
    /\ Queries = <<Listed[1].name, Listed[3].name>>
    /\ SearchCalls[1].raised # "none"

(* C2: a search that raises is logged as an error about its trend and about *)
(* no other, and never leaves the loop as an exception: the pause of line   *)
(* 114 follows it; the run then ends with status 0 having searched every    *)
(* trend with a volume > 0 (up to a trend that is not well formed, if one   *)
(* is listed) and printed every post the searches returned.                 *)
C2_SearchErrorStaysWithItsTrend ==
    /\ \A k \in 1..Len(SearchCalls) :
          SearchCalls[k].raised # "none" =>
              /\ \E m \in 1..Len(log) : log[m].level = "ERROR" /\ log[m].about = SearchCalls[k].q
              /\ (k = Len(SearchCalls) /\ trace[Len(trace)].op = "search_tweets")
                    => (pc = "sleep" /\ exc = "none")
    /\ \A m \in 1..Len(log) :
          (log[m].level = "ERROR" /\ log[m].about # NoText) =>
              \E k \in 1..Len(SearchCalls) :
                  SearchCalls[k].raised # "none" /\ SearchCalls[k].q = log[m].about
    /\ (/\ pc = "exited"
        /\ \E k \in 1..Len(SearchCalls) : SearchCalls[k].raised # "none")
          => /\ exitStatus = 0
             /\ Queries = PositiveNames(SubSeq(Listed, 1, FirstMalformed(Listed) - 1))
             /\ Len(stdout) = Len(TweetLines(SearchCalls))

C2_Witness ==
    /\ Exited0
    /\ Len(SearchCalls) = 2
    /\ SearchCalls[1].raised = "ConnectionError"
    /\ SearchCalls[2].raised = "none" /\ Len(SearchCalls[2].result) = 2
    /\ Len(stdout) = 2

(* C3: a run in which credential loading or client construction failed     *)
(* ends with a critical message logged and exit status 1, having called    *)
(* neither API operation and printed nothing.                              *)
C3_InitFailureIsCriticalExit1 ==
    (pc = "exited" /\ ~api.built)
        => /\ exitStatus = 1
           /\ LoggedAt("CRITICAL")
           /\ trace = <<>>
           /\ stdout = <<>>

(* C4 as stated: the output is, in trend order and then in returned-post    *)
(* order, one line "<trend name>: <post text>" per post of a successful     *)
(* search.                                                                  *)
C4_LinesNameTheirTrend == pc = "exited" => stdout = NamedLines(SearchCalls)

(* C4 as amended: the output is, in trend order and then in returned-post   *)
(* order, one line "  Tweet: <post text>" per post of a successful search,  *)
(* with no trend name in it; while a result is being printed it is a prefix *)
(* of those lines.                                                          *)
C4_LinesAreTweetLines ==
    /\ IsPrefix(stdout, TweetLines(SearchCalls))
    /\ pc # "tweets" => stdout = TweetLines(SearchCalls)

C4_Witness ==
    /\ Exited0
    /\ Len(SearchCalls) = 2
    /\ Len(SearchCalls[1].result) = 2 /\ Len(SearchCalls[2].result) = 1
    /\ Len(stdout) = 3

(* C5: the line printed for a post holds no newline character, and is the   *)
(* fixed prefix followed by the post's text with each newline replaced by   *)
(* one space and every other character kept in place.                       *)
C5_PrintedLineHasNoNewline ==
    \A k \in 1..Len(stdout) :
        LET line == stdout[k]
            text == FullText(tweets[k])
        IN  /\ \A m \in 1..Len(line) : line[m] # "\n"
            /\ Len(line) = Len(TweetPrefix) + Len(text)
            /\ \A m \in 1..Len(text) :
                  line[Len(TweetPrefix) + m] = (IF text[m] = "\n" THEN " " ELSE text[m])

C5_Witness ==
    /\ Len(stdout) = 1
    /\ FullText(tweets[1]) = <<"\n", "a">>
    /\ stdout[1] = TweetPrefix \o <<" ", "a">>

(* C6: once api.trends_place has returned an empty or absent result, a     *)
(* warning is logged, no search and no sleep is ever made, nothing is      *)
(* printed, and the process ends with status 0.                            *)
C6_EmptyListingEndsQuietly ==
    (ListingReturned /\ EmptyOrAbsent(trends_data))
        => /\ Logged("WARNING", 76, NoText)
           /\ Len(trace) = 1
           /\ stdout = <<>>
           /\ pc \in {"return", "exited"}
           /\ pc = "exited" => exitStatus = 0

C6_Witness ==
    /\ Exited0
    /\ ListingReturned
    /\ ~trends_data.isNone /\ Len(trends_data.places) = 1 /\ ~trends_data.places[1].hasTrends

(* C7 as stated: whenever the loader has returned, and whenever the client *)
(* is constructed, all four credentials are present and non-empty.         *)
C7_CredentialsPresentAndNonEmpty ==
    (pc \in {"read", "auth"} \/ api.built)
        => /\ api_credentials.type = "object"
           /\ \A key \in required_keys :
                 key \in DOMAIN api_credentials.val /\ api_credentials.val[key] # ""

(* C7 as amended: whenever the loader has returned, the loaded document    *)
(* contains all four key names; whenever the client is constructed, the    *)
(* document is a mapping with all four keys, whose values may be empty and *)
(* are the ones the client got; a file without one of the four names is    *)
(* rejected by the loader and never reaches client construction.           *)
C7_CredentialsPresent ==
    /\ (pc \in {"read", "auth"} \/ api.built)
          => /\ api_credentials = credFile.doc
             /\ \A key \in required_keys : key \in api_credentials.has
    /\ (pc = "auth" \/ api.built)
          => /\ api_credentials.type = "object"
             /\ \A key \in required_keys : key \in DOMAIN api_credentials.val
    /\ api.built
          => /\ api.consumer_key = api_credentials.val["consumer_key"]
             /\ api.consumer_secret = api_credentials.val["consumer_secret"]
             /\ api.access_token = api_credentials.val["access_token"]
             /\ api.access_token_secret = api_credentials.val["access_token_secret"]
    /\ (\E key \in required_keys : key \notin credFile.doc.has)
          => /\ pc \in {"load", "init_except", "exited"}
             /\ ~api.built
             /\ pc = "exited" => exitStatus = 1

C7_Witness ==
    /\ api.built
    /\ api.consumer_key = ""
    /\ api.consumer_secret # ""

(* C8: between any two consecutive calls of api.search_tweets there is a    *)
(* call of time.sleep.                                                      *)
C8_SleepBetweenSearches ==
    \A k \in 1..(Len(trace) - 1) :
        trace[k].op = "search_tweets" => trace[k + 1].op # "search_tweets"

(* C9: once api.trends_place has raised, it is not called again, no search *)
(* is made and nothing is printed; the failure is logged at critical level *)
(* as get_trending_tweets returns, and the process ends with status 0 and  *)
(* no exception in flight.                                                  *)
C9_ListingFailureEndsCleanly ==
    ListingRaised
        => /\ Len(trace) = 1
           /\ stdout = <<>>
           /\ pc \in {"gtt_except", "return", "exited"}
           /\ pc \in {"return", "exited"} => (LoggedAt("CRITICAL") /\ exc = "none")
           /\ pc = "exited" => exitStatus = 0

C9_Witness ==
    /\ Exited0
    /\ ListingRaised
    /\ trace[1].raised = "AttributeError"
    /\ Logged("CRITICAL", 119, NoText)

(* C10: when a listed trend has no name, or a volume that cannot be        *)
(* compared with 0, the run ends at the first such trend: the searches made *)
(* are those of the trends with a volume > 0 before it and no trend after   *)
(* it is searched, the critical message of the outer handler is logged,     *)
(* what was printed stays, and the process ends with status 0.              *)
C10_MalformedTrendEndsTheLoop ==
    (pc = "exited" /\ ListingReturned /\ FirstMalformed(Listed) <= Len(Listed))
        => /\ exitStatus = 0
           /\ Queries = PositiveNames(SubSeq(Listed, 1, FirstMalformed(Listed) - 1))
           /\ Logged("CRITICAL", 119, NoText)
           /\ stdout = TweetLines(SearchCalls)

C10_Witness ==
    /\ Exited0
    /\ Len(Listed) = 3
    /\ FirstMalformed(Listed) = 2
    /\ Listed[2].volume.type = "str"
    /\ VolumePositive(Listed[3])
    /\ Len(Queries) = 1
    /\ Len(stdout) = 2

====
